---- MODULE Spec2Model ----
(***************************************************************************)
(* Cache-aside layer of the property-listing app (properties/utils.py and  *)
(* properties/views.py).                                                   *)
(*                                                                         *)
(* Shared state: the property table of the store, the availability of the  *)
(* store, and the cache backend's one entry under the key                  *)
(* 'all_properties' (its value and remaining lifetime).  Each request is a *)
(* process p whose position pc[p] sits between two accesses to the shared  *)
(* state; one action is one such access together with the local code that  *)
(* follows it up to the next access (or up to the response).               *)
(*                                                                         *)
(* The cache backend is taken to be available; the store may be down.      *)
(***************************************************************************)
EXTENDS Integers, Sequences, FiniteSets, TLC

\* ------------------------------------------------------------------ bounds
\* Identifiers a row of the table may carry.
NRows == 2
\* Request processes of the concurrent specification.
NProcs == 2
\* Seconds by which one Tick advances the clock.
TickLen == 1800
\* The counters of the history variables saturate here.
MaxStreak == 2
\* Identifiers the writers of the concurrent specification insert.
NConcRows == 1

\* ------------------------------------------------------- program constants
\* utils.py line 60: cache.set(cache_key, properties_list, 3600)
CACHE_TTL == 3600
\* utils.py lines 32, 78, 94: cache_key = 'all_properties'
cache_key == "all_properties"

Rows == 1..NRows
ConcRows == 1..NConcRows
Procs == 1..NProcs
\* The sequential specification runs one request at a time.
SeqProcs == {1}
Methods == {"GET", "POST", "DELETE"}
CacheKeys == {cache_key}

VARIABLES
    store,            \* the Property table: its rows, in the store's order
    storeUp,          \* whether the store answers queries
    cache,            \* the cache backend: key -> entry
    pc,               \* pc[p]: position of request p
    op,               \* op[p]: the view request p runs
    properties_list,  \* properties_list[p]: get_all_properties' result
    cached_data,      \* cached_data[p]: get_cache_stats' cache lookup
    queries,          \* queries[p]: full table reads of p's latest request
    request,          \* the request whose view ran in the last step
                      \*   (NoRequest after a step of the environment)
    resp,             \* the response of the last request served, until
                      \*   the next list or stats request starts
    stats,            \* the dict get_cache_stats returned in that request
    lastGet,          \* history: last get_all_properties result since the
                      \*   entry was last deleted or expired
    lastList,         \* history: the 200 list responses whose records the
                      \*   entry has held ever since, without being deleted
                      \*   or expiring: how many, and those records
    dirty,            \* history: dirty[p], the table was written after p's
                      \*   latest request read it and before it ended
    invalidated,      \* history: invalidate_properties_cache has run and no
                      \*   list request has ended since
    streak,           \* history: POSTs to invalidate_cache served in a row
    age,              \* history: seconds since the cache.set that wrote
                      \*   the entry (0 while there is none)
    cause,            \* history: "expired" / "failed" once the entry ran
                      \*   out or a full read of the table failed, until
                      \*   a get_all_properties call returns
    lastRead,         \* history: the table as the latest full read of a
                      \*   miss path found it
    preInv,           \* history: preInv[p], the list p holds was read
                      \*   before an invalidation that has completed
    entryStale,       \* history: so was the entry's value
    batch             \* history: cache.set calls that wrote the entry
                      \*   since it was last absent

vars == <<store, storeUp, cache, pc, op, properties_list, cached_data,
          queries, request, resp, stats, lastGet, lastList, dirty,
          invalidated, streak, age, cause, lastRead, preInv, entryStale,
          batch>>

\* --------------------------------------------------------------- values
\* Python's None against a list: an option record.
None == [some |-> FALSE, val |-> <<>>]
Some(v) == [some |-> TRUE, val |-> v]

\* utils.py lines 38 and 101: `x is not None`.
\* (Faulty variant: `if x:`, which takes a cached empty list for a miss.)
IsNotNone_Truthiness(x) == x.some /\ Len(x.val) > 0

IsNotNone(x) == x.some

\* Python truthiness of a cache lookup result: None and [] are falsy.
Truthy(x) == x.some /\ Len(x.val) > 0

RECURSIVE SeqRange(_)
SeqRange(s) == IF s = <<>> THEN {} ELSE {Head(s)} \cup SeqRange(Tail(s))

RemoveAt(s, i) == SubSeq(s, 1, i - 1) \o SubSeq(s, i + 1, Len(s))

\* The table with row r added; the store returns rows by identifier.
InsertRow(s, r) ==
    LET Before(x) == x < r
        After(x) == x > r
    IN SelectSeq(s, Before) \o <<r>> \o SelectSeq(s, After)

\* ------------------------------------------------------- cache backend
AbsentEntry == [present |-> FALSE, value |-> <<>>, remaining |-> 0]

\* cache.get(key): the value, or None when the key is absent or expired.
\* (Faulty variant: a stored empty list is handed back as None.)
cache_get_EmptyAsNone(c, key) ==
    IF c[key].present /\ c[key].value # <<>> THEN Some(c[key].value) ELSE None

cache_get(c, key) == IF c[key].present THEN Some(c[key].value) ELSE None

\* cache.set(key, value, timeout)
\* (Faulty variant: the timeout is dropped and the backend's default of 300 applies.)
cache_set_DefaultTimeout(c, key, value, timeout) ==
    [c EXCEPT ![key] = [present |-> TRUE, value |-> value, remaining |-> 300]]

cache_set(c, key, value, timeout) ==
    [c EXCEPT ![key] = [present |-> TRUE, value |-> value, remaining |-> timeout]]

\* cache.delete(key): deleting an absent key changes nothing.
cache_delete(c, key) == [c EXCEPT ![key] = AbsentEntry]

\* The backend after d seconds: an entry whose lifetime has run out is gone.
cache_age(c, d) ==
    [k \in DOMAIN c |->
        IF ~c[k].present THEN c[k]
        ELSE IF c[k].remaining <= d THEN AbsentEntry
        ELSE [c[k] EXCEPT !.remaining = c[k].remaining - d]]

\* ------------------------------------------------------------ responses
\* A request as a view sees it.  Only invalidate_cache reads the method.
NoRequest == [view |-> "none", method |-> "none"]
Req(view, method) == [view |-> view, method |-> method]

NoResp == [kind |-> "none", status |-> 0, body |-> [none |-> TRUE]]

\* The hosting framework's answer to an exception no view catches.
ErrorResp(view) == [kind |-> view, status |-> 500, body |-> [error |-> "unhandled"]]

\* utils.py lines 99-106: the dict get_cache_stats builds.
\* (Faulty variant: is_cached taken from the truthiness of the lookup.)
StatsDict_TruthyFlag(data, count) ==
    [cache_key |-> cache_key,
     is_cached |-> Truthy(data),
     cached_count |-> IF Truthy(data) THEN Len(data.val) ELSE 0,
     database_count |-> count,
     cache_backend |-> "Redis",
     cache_timeout |-> "1 hour (3600 seconds)"]

\* (Faulty variant: the two counts end up under each other's key.)
StatsDict_SwappedCounts(data, count) ==
    [cache_key |-> cache_key,
     is_cached |-> IsNotNone(data),
     cached_count |-> count,
     database_count |-> IF Truthy(data) THEN Len(data.val) ELSE 0,
     cache_backend |-> "Redis",
     cache_timeout |-> "1 hour (3600 seconds)"]

StatsDict(data, count) ==
    [cache_key |-> cache_key,
     is_cached |-> IsNotNone(data),
     cached_count |-> IF Truthy(data) THEN Len(data.val) ELSE 0,
     database_count |-> count,
     cache_backend |-> "Redis",
     cache_timeout |-> "1 hour (3600 seconds)"]

\* Before any get_cache_stats call has returned.
NoStats ==
    [cache_key |-> "", is_cached |-> FALSE, cached_count |-> 0,
     database_count |-> 0, cache_backend |-> "", cache_timeout |-> ""]

\* views.py lines 38-51
\* (Faulty variant: the two data_source labels are the wrong way round.)
ListResp_SwappedSource(plist, st) ==
    [kind |-> "property_list", status |-> 200,
     body |-> [properties |-> plist,
               count |-> Len(plist),
               cache_info |-> [is_cached |-> st.is_cached,
                               cache_backend |-> st.cache_backend,
                               cache_timeout |-> st.cache_timeout,
                               cache_key |-> st.cache_key],
               performance |-> [data_source |-> IF st.is_cached THEN "PostgreSQL Database"
                                                ELSE "Redis Cache",
                                cache_hit |-> st.is_cached]]]

ListResp(plist, st) ==
    [kind |-> "property_list", status |-> 200,
     body |-> [properties |-> plist,
               count |-> Len(plist),
               cache_info |-> [is_cached |-> st.is_cached,
                               cache_backend |-> st.cache_backend,
                               cache_timeout |-> st.cache_timeout,
                               cache_key |-> st.cache_key],
               performance |-> [data_source |-> IF st.is_cached THEN "Redis Cache"
                                                ELSE "PostgreSQL Database",
                                cache_hit |-> st.is_cached]]]

\* views.py lines 67-70
StatsResp(st) ==
    [kind |-> "cache_stats", status |-> 200,
     body |-> [cache_statistics |-> st,
               message |-> "Cache statistics retrieved successfully"]]

\* views.py lines 89-93
\* utils.py lines 41, 65: what get_all_properties hands to a caller, and
\* the branch that returned it.
CallResult(plist, from) ==
    [kind |-> "get_all_properties", status |-> 200,
     body |-> [properties |-> plist, from |-> from]]

InvalidatedResp ==
    [kind |-> "invalidate_cache", status |-> 200,
     body |-> [message |-> "Properties cache invalidated successfully",
               action |-> "cache_cleared",
               next_request |-> "will_fetch_from_database"]]

\* views.py lines 95-98
MethodNotAllowedResp(method) ==
    [kind |-> "invalidate_cache", status |-> 405,
     body |-> [error |-> "Only POST method allowed for cache invalidation",
               current_method |-> method]]

\* ----------------------------------------------------------------- init
NoList == [n |-> 0, val |-> <<>>]

Bump(n) == IF n < MaxStreak THEN n + 1 ELSE n

Init ==
    /\ store = <<>>
    /\ storeUp = TRUE
    /\ cache = [k \in CacheKeys |-> AbsentEntry]
    /\ pc = [p \in Procs |-> "idle"]
    /\ op = [p \in Procs |-> "none"]
    /\ properties_list = [p \in Procs |-> <<>>]
    /\ cached_data = [p \in Procs |-> None]
    /\ queries = [p \in Procs |-> 0]
    /\ request = NoRequest
    /\ resp = NoResp
    /\ stats = NoStats
    /\ lastGet = None
    /\ lastList = NoList
    /\ dirty = [p \in Procs |-> FALSE]
    /\ invalidated = FALSE
    /\ streak = 0
    /\ age = 0
    /\ cause = "none"
    /\ lastRead = None
    /\ preInv = [p \in Procs |-> FALSE]
    /\ entryStale = FALSE
    /\ batch = 0

\* ------------------------------------------------------- request frames
\* Request p has ended: its frame is dropped and `r` is what the client gets.
Finish(p, r) ==
    /\ resp' = r
    /\ pc' = [pc EXCEPT ![p] = "idle"]
    /\ op' = [op EXCEPT ![p] = "none"]
    /\ properties_list' = [properties_list EXCEPT ![p] = <<>>]
    /\ cached_data' = [cached_data EXCEPT ![p] = None]
    /\ invalidated' = IF op[p] = "property_list" THEN FALSE ELSE invalidated

\* An exception leaves every frame of request p; no view catches it.
Raise(p) == Finish(p, ErrorResp(op[p]))

\* A list or stats request starts in process p.
Start(p, view) ==
    /\ pc[p] = "idle"
    /\ op' = [op EXCEPT ![p] = view]
    /\ request' = Req(view, "GET")
    /\ resp' = NoResp
    /\ stats' = NoStats
    /\ queries' = [queries EXCEPT ![p] = 0]
    /\ dirty' = [dirty EXCEPT ![p] = FALSE]
    /\ streak' = 0

\* ------------------------------------------------- get_all_properties
\* utils.py lines 36-41: the cache lookup, and the return on a hit.
\* (Faulty variant: a hit writes the entry back, which starts its lifetime
\* anew.)
GetAllLookup_Renew(p) ==
    LET cached_properties == cache_get(cache, cache_key) IN
    /\ IF IsNotNone(cached_properties)
         THEN /\ properties_list' = [properties_list EXCEPT ![p] = cached_properties.val]
              /\ pc' = [pc EXCEPT ![p] = "stats_get"]
              /\ lastGet' = Some(cached_properties.val)
              /\ cause' = "none"
              /\ cache' = cache_set(cache, cache_key, cached_properties.val, CACHE_TTL)
         ELSE /\ pc' = [pc EXCEPT ![p] = "gap_query"]
              /\ UNCHANGED <<properties_list, lastGet, cause, cache>>
    /\ UNCHANGED age

GetAllLookup(p) ==
    LET cached_properties == cache_get(cache, cache_key) IN
    /\ IF IsNotNone(cached_properties)
         THEN /\ properties_list' = [properties_list EXCEPT ![p] = cached_properties.val]
              /\ pc' = [pc EXCEPT ![p] = "stats_get"]
              /\ lastGet' = Some(cached_properties.val)
              /\ cause' = "none"
         ELSE /\ pc' = [pc EXCEPT ![p] = "gap_query"]
              /\ UNCHANGED <<properties_list, lastGet, cause>>
    /\ UNCHANGED <<cache, age>>

\* utils.py lines 49-55: list(Property.objects.all().values(...)).
\* (Faulty variant: a failed read is swallowed and an empty list stands in
\* for the table.)
GetAllQuery_Fallback(p) ==
    /\ pc[p] = "gap_query"
    /\ request' = Req(op[p], "GET")
    /\ properties_list' = [properties_list EXCEPT ![p] = IF storeUp THEN store ELSE <<>>]
    /\ pc' = [pc EXCEPT ![p] = "gap_set"]
    /\ queries' = [queries EXCEPT ![p] = @ + 1]
    /\ lastRead' = IF storeUp THEN Some(store) ELSE lastRead
    /\ UNCHANGED <<op, cached_data, resp, invalidated, cause>>
    /\ UNCHANGED <<store, storeUp, cache, stats, lastGet, lastList, dirty, streak,
                   age, preInv, entryStale, batch>>

\* (Faulty variant: the key is looked up once more before the read, and a
\* value another request stored meanwhile is taken in place of the table.)
GetAllQuery_Recheck(p) ==
    /\ pc[p] = "gap_query"
    /\ request' = Req(op[p], "GET")
    /\ IF cache[cache_key].present
         THEN /\ properties_list' = [properties_list EXCEPT ![p] = cache[cache_key].value]
              /\ pc' = [pc EXCEPT ![p] = "gap_set"]
              /\ UNCHANGED <<op, cached_data, resp, invalidated, cause,
                             queries, lastRead>>
         ELSE IF storeUp
         THEN /\ properties_list' = [properties_list EXCEPT ![p] = store]
              /\ pc' = [pc EXCEPT ![p] = "gap_set"]
              /\ queries' = [queries EXCEPT ![p] = @ + 1]
              /\ lastRead' = Some(store)
              /\ UNCHANGED <<op, cached_data, resp, invalidated, cause>>
         ELSE /\ Raise(p)
              /\ cause' = "failed"
              /\ UNCHANGED <<queries, lastRead>>
    /\ UNCHANGED <<store, storeUp, cache, stats, lastGet, lastList, dirty, streak,
                   age, preInv, entryStale, batch>>

GetAllQuery(p) ==
    /\ pc[p] = "gap_query"
    /\ request' = Req(op[p], "GET")
    /\ IF storeUp
         THEN /\ properties_list' = [properties_list EXCEPT ![p] = store]
              /\ pc' = [pc EXCEPT ![p] = "gap_set"]
              /\ queries' = [queries EXCEPT ![p] = @ + 1]
              /\ lastRead' = Some(store)
              /\ UNCHANGED <<op, cached_data, resp, invalidated, cause>>
         ELSE /\ Raise(p)
              /\ cause' = "failed"
              /\ UNCHANGED <<queries, lastRead>>
    /\ UNCHANGED <<store, storeUp, cache, stats, lastGet, lastList, dirty, streak,
                   age, preInv, entryStale, batch>>

\* utils.py lines 60-65: cache.set(...) and the return of the list.
\* (Faulty variant: the list is returned without being stored.)
GetAllSet_NoStore(p) ==
    /\ pc[p] = "gap_set"
    /\ request' = Req(op[p], "GET")
    /\ pc' = [pc EXCEPT ![p] = "stats_get"]
    /\ lastGet' = Some(properties_list[p])
    /\ cause' = "none"
    /\ preInv' = [preInv EXCEPT ![p] = FALSE]
    /\ UNCHANGED <<store, storeUp, cache, op, properties_list, cached_data,
                   queries, resp, stats, lastList, dirty, invalidated, streak,
                   lastRead, age, entryStale, batch>>

GetAllSet(p) ==
    /\ pc[p] = "gap_set"
    /\ request' = Req(op[p], "GET")
    /\ cache' = cache_set(cache, cache_key, properties_list[p], CACHE_TTL)
    /\ pc' = [pc EXCEPT ![p] = "stats_get"]
    /\ lastGet' = Some(properties_list[p])
    /\ age' = 0
    /\ cause' = "none"
    /\ entryStale' = preInv[p]
    /\ batch' = IF cache[cache_key].present /\ batch < NProcs
                  THEN batch + 1
                  ELSE IF cache[cache_key].present THEN batch ELSE 1
    /\ preInv' = [preInv EXCEPT ![p] = FALSE]
    /\ UNCHANGED <<store, storeUp, op, properties_list, cached_data, queries,
                   resp, stats, lastList, dirty, invalidated, streak, lastRead>>

\* ----------------------------------------------------- get_cache_stats
\* utils.py line 97: cached_data = cache.get(cache_key)
\* (Faulty variant: the lookup renews the entry's lifetime, as a touch would.)
StatsLookup_Touch(p) ==
    /\ cached_data' = [cached_data EXCEPT ![p] = cache_get(cache, cache_key)]
    /\ pc' = [pc EXCEPT ![p] = "stats_count"]
    /\ cache' = IF cache[cache_key].present
                  THEN cache_set(cache, cache_key, cache[cache_key].value, CACHE_TTL)
                  ELSE cache

StatsLookup(p) ==
    /\ cached_data' = [cached_data EXCEPT ![p] = cache_get(cache, cache_key)]
    /\ pc' = [pc EXCEPT ![p] = "stats_count"]
    /\ UNCHANGED cache

\* What the view of request p answers once get_cache_stats returned `st`.
ViewResp(p, st) ==
    IF op[p] = "property_list" THEN ListResp(properties_list[p], st)
    ELSE StatsResp(st)

\* utils.py lines 99-108: Property.objects.count() and the dict, followed by
\* the calling view's JsonResponse (views.py lines 38-51, 67-70).
\* (Faulty variant: a failing count is swallowed and reported as 0.)
StatsCount_Swallow(p) ==
    /\ pc[p] = "stats_count"
    /\ request' = Req(op[p], "GET")
    /\ LET st == StatsDict(cached_data[p], IF storeUp THEN Len(store) ELSE 0) IN
       /\ stats' = st
       /\ Finish(p, ViewResp(p, st))
       /\ lastList' = IF op[p] # "property_list" THEN lastList
                      ELSE IF ~lastGet.some THEN NoList
                      ELSE [n |-> Bump(lastList.n), val |-> properties_list[p]]
    /\ UNCHANGED <<store, storeUp, cache, queries, lastGet, dirty, streak,
                   age, cause, lastRead, preInv, entryStale, batch>>

StatsCount(p) ==
    /\ pc[p] = "stats_count"
    /\ request' = Req(op[p], "GET")
    /\ IF storeUp
         THEN LET st == StatsDict(cached_data[p], Len(store)) IN
              /\ stats' = st
              /\ Finish(p, ViewResp(p, st))
              /\ lastList' = IF op[p] # "property_list" THEN lastList
                             ELSE IF ~lastGet.some THEN NoList
                             ELSE [n |-> Bump(lastList.n), val |-> properties_list[p]]
         ELSE /\ Raise(p)
              /\ UNCHANGED <<stats, lastList>>
    /\ UNCHANGED <<store, storeUp, cache, queries, lastGet, dirty, streak,
                   age, cause, lastRead, preInv, entryStale, batch>>

\* ---------------------------------------------------------------- views
\* views.py lines 11-30: property_list up to get_all_properties' lookup.
PropertyListBegin(p) ==
    /\ Start(p, "property_list")
    /\ GetAllLookup(p)
    /\ UNCHANGED <<store, storeUp, cached_data, lastList, invalidated,
                   lastRead, preInv, entryStale, batch>>

\* views.py line 34: property_list calls get_cache_stats.
PropertyListStats(p) ==
    /\ pc[p] = "stats_get"
    /\ request' = Req(op[p], "GET")
    /\ StatsLookup(p)
    /\ UNCHANGED <<store, storeUp, op, properties_list, queries, resp,
                   stats, lastGet, lastList, dirty, invalidated, streak,
                   age, cause, lastRead, preInv, entryStale, batch>>

\* views.py lines 53-65: cache_stats up to get_cache_stats' lookup.
CacheStatsBegin(p) ==
    /\ Start(p, "cache_stats")
    /\ StatsLookup(p)
    /\ UNCHANGED <<store, storeUp, properties_list, lastGet, lastList,
                   invalidated, age, cause, lastRead, preInv, entryStale, batch>>

\* The requests that hold a list read from the table at the moment an
\* invalidation completes.
HeldAcrossInvalidation ==
    [q \in Procs |-> preInv[q] \/ pc[q] = "gap_set"]

\* utils.py lines 67-82
\* (Faulty variant: another key is deleted, so the entry stays.)
invalidate_properties_cache_WrongKey == cache

invalidate_properties_cache == cache_delete(cache, cache_key)

\* views.py lines 72-98: the whole invalidate_cache view.
\* (Faulty variant: deleting a key that is not there raises, and the view fails.)
InvalidateCache_StrictDelete(p, method) ==
    /\ pc[p] = "idle"
    /\ request' = Req("invalidate_cache", method)
    /\ stats' = NoStats
    /\ IF method = "POST"
         THEN /\ cache' = invalidate_properties_cache
              /\ resp' = IF cache[cache_key].present THEN InvalidatedResp
                         ELSE ErrorResp("invalidate_cache")
              /\ lastGet' = None
              /\ lastList' = NoList
              /\ invalidated' = TRUE
              /\ streak' = Bump(streak)
              /\ age' = 0
              /\ entryStale' = FALSE
              /\ batch' = 0
              /\ preInv' = HeldAcrossInvalidation
         ELSE /\ resp' = MethodNotAllowedResp(method)
              /\ streak' = 0
              /\ UNCHANGED <<cache, lastGet, lastList, invalidated, age,
                             entryStale, batch, preInv>>
    /\ UNCHANGED <<store, storeUp, pc, op, properties_list, cached_data,
                   queries, dirty, cause, lastRead>>

\* (Faulty variant: the method is not checked.)
InvalidateCache_NoMethodCheck(p, method) ==
    /\ pc[p] = "idle"
    /\ request' = Req("invalidate_cache", method)
    /\ stats' = NoStats
    /\ cache' = invalidate_properties_cache
    /\ resp' = InvalidatedResp
    /\ lastGet' = None
    /\ lastList' = NoList
    /\ invalidated' = TRUE
    /\ streak' = IF method = "POST" THEN Bump(streak) ELSE 0
    /\ age' = 0
    /\ entryStale' = FALSE
    /\ batch' = 0
    /\ preInv' = HeldAcrossInvalidation
    /\ UNCHANGED <<store, storeUp, pc, op, properties_list, cached_data,
                   queries, dirty, cause, lastRead>>

InvalidateCache(p, method) ==
    /\ pc[p] = "idle"
    /\ request' = Req("invalidate_cache", method)
    /\ stats' = NoStats
    /\ IF method = "POST"
         THEN /\ cache' = invalidate_properties_cache
              /\ resp' = InvalidatedResp
              /\ lastGet' = None
              /\ lastList' = NoList
              /\ invalidated' = TRUE
              /\ streak' = Bump(streak)
              /\ age' = 0
              /\ entryStale' = FALSE
              /\ batch' = 0
              /\ preInv' = HeldAcrossInvalidation
         ELSE /\ resp' = MethodNotAllowedResp(method)
              /\ streak' = 0
              /\ UNCHANGED <<cache, lastGet, lastList, invalidated, age,
                             entryStale, batch, preInv>>
    /\ UNCHANGED <<store, storeUp, pc, op, properties_list, cached_data,
                   queries, dirty, cause, lastRead>>

\* ---------------------------------------------------------- environment
\* Rows are created and deleted by writers outside this code.  A request
\* that has read the table in get_all_properties now holds an old snapshot.
Written ==
    [p \in Procs |-> dirty[p] \/ (pc[p] # "idle" /\ queries[p] > 0)]

StoreInsert(r) ==
    /\ r \notin SeqRange(store)
    /\ store' = InsertRow(store, r)
    /\ dirty' = Written
    /\ request' = NoRequest
    /\ UNCHANGED <<storeUp, cache, pc, op, properties_list, cached_data,
                   queries, resp, stats, lastGet, lastList, invalidated, streak,
                   age, cause, lastRead, preInv, entryStale, batch>>

StoreDelete(i) ==
    /\ i \in 1..Len(store)
    /\ store' = RemoveAt(store, i)
    /\ dirty' = Written
    /\ request' = NoRequest
    /\ UNCHANGED <<storeUp, cache, pc, op, properties_list, cached_data,
                   queries, resp, stats, lastGet, lastList, invalidated, streak,
                   age, cause, lastRead, preInv, entryStale, batch>>

\* The store becomes unreachable, or recovers.
StoreFlip ==
    /\ storeUp' = ~storeUp
    /\ request' = NoRequest
    /\ UNCHANGED <<store, cache, pc, op, properties_list, cached_data,
                   queries, resp, stats, lastGet, lastList, dirty,
                   invalidated, streak, age, cause, lastRead, preInv,
                   entryStale, batch>>

\* TickLen seconds pass; the backend drops an entry whose lifetime ran out.
Tick ==
    /\ cache[cache_key].present
    /\ cache' = cache_age(cache, TickLen)
    /\ request' = NoRequest
    /\ lastGet' = IF cache'[cache_key].present THEN lastGet ELSE None
    /\ lastList' = IF cache'[cache_key].present THEN lastList ELSE NoList
    /\ age' = IF cache'[cache_key].present THEN age + TickLen ELSE 0
    /\ cause' = IF cache'[cache_key].present THEN cause ELSE "expired"
    /\ entryStale' = (cache'[cache_key].present /\ entryStale)
    /\ batch' = IF cache'[cache_key].present THEN batch ELSE 0
    /\ UNCHANGED <<store, storeUp, pc, op, properties_list, cached_data,
                   queries, resp, stats, dirty, invalidated, streak,
                   lastRead, preInv>>

Env ==
    \/ \E r \in Rows : StoreInsert(r)
    \/ \E i \in 1..NRows : StoreDelete(i)
    \/ StoreFlip
    \/ Tick

Request(p) ==
    \/ PropertyListBegin(p)
    \/ GetAllQuery(p)
    \/ GetAllSet(p)
    \/ PropertyListStats(p)
    \/ CacheStatsBegin(p)
    \/ StatsCount(p)
    \/ \E method \in Methods : InvalidateCache(p, method)

\* One request at a time: a request is served to its response before the
\* next one starts; the store's writers and the clock run alongside.
Next == Env \/ \E p \in SeqProcs : Request(p)

Spec == Init /\ [][Next]_vars

\* ------------------------------------- concurrent get_all_properties
\* A caller in process p calls get_all_properties(): utils.py lines 36-41,
\* the lookup, with the return on a hit.
GetAllCall(p) ==
    LET cached_properties == cache_get(cache, cache_key) IN
    /\ pc[p] = "idle"
    /\ request' = Req("get_all_properties", "GET")
    /\ streak' = 0
    /\ IF IsNotNone(cached_properties)
         THEN /\ resp' = CallResult(cached_properties.val, "cache")
              /\ lastGet' = Some(cached_properties.val)
              /\ cause' = "none"
              /\ invalidated' = FALSE
              /\ UNCHANGED <<pc, op>>
         ELSE /\ pc' = [pc EXCEPT ![p] = "gap_query"]
              /\ op' = [op EXCEPT ![p] = "get_all_properties"]
              /\ UNCHANGED <<resp, lastGet, cause, invalidated>>
    /\ UNCHANGED <<store, storeUp, cache, properties_list, cached_data,
                   queries, stats, lastList, dirty, age, lastRead, preInv,
                   entryStale, batch>>

\* utils.py lines 60-65 for that caller: cache.set(...) and the return.
\* (Faulty variant: the queryset is evaluated only when it is stored, so
\* the table as it is at the write goes into the cache.)
GetAllCallSet_Lazy(p) ==
    /\ pc[p] = "gap_set"
    /\ op[p] = "get_all_properties"
    /\ request' = Req(op[p], "GET")
    /\ cache' = cache_set(cache, cache_key, store, CACHE_TTL)
    /\ resp' = CallResult(store, "store")
    /\ pc' = [pc EXCEPT ![p] = "idle"]
    /\ op' = [op EXCEPT ![p] = "none"]
    /\ properties_list' = [properties_list EXCEPT ![p] = <<>>]
    /\ queries' = [queries EXCEPT ![p] = 0]
    /\ dirty' = [dirty EXCEPT ![p] = FALSE]
    /\ lastGet' = Some(store)
    /\ invalidated' = FALSE
    /\ age' = 0
    /\ cause' = "none"
    /\ entryStale' = FALSE
    /\ preInv' = [preInv EXCEPT ![p] = FALSE]
    /\ batch' = IF cache[cache_key].present /\ batch < NProcs
                  THEN batch + 1
                  ELSE IF cache[cache_key].present THEN batch ELSE 1
    /\ UNCHANGED <<store, storeUp, cached_data, stats, lastList, streak,
                   lastRead>>

GetAllCallSet(p) ==
    /\ pc[p] = "gap_set"
    /\ op[p] = "get_all_properties"
    /\ request' = Req(op[p], "GET")
    /\ cache' = cache_set(cache, cache_key, properties_list[p], CACHE_TTL)
    /\ resp' = CallResult(properties_list[p], "store")
    /\ pc' = [pc EXCEPT ![p] = "idle"]
    /\ op' = [op EXCEPT ![p] = "none"]
    /\ properties_list' = [properties_list EXCEPT ![p] = <<>>]
    /\ queries' = [queries EXCEPT ![p] = 0]
    /\ dirty' = [dirty EXCEPT ![p] = FALSE]
    /\ lastGet' = Some(properties_list[p])
    /\ invalidated' = FALSE
    /\ age' = 0
    /\ cause' = "none"
    /\ entryStale' = preInv[p]
    /\ preInv' = [preInv EXCEPT ![p] = FALSE]
    /\ batch' = IF cache[cache_key].present /\ batch < NProcs
                  THEN batch + 1
                  ELSE IF cache[cache_key].present THEN batch ELSE 1
    /\ UNCHANGED <<store, storeUp, cached_data, stats, lastList, streak,
                   lastRead>>

\* The store's writers and the clock, alongside concurrent callers.
ConcEnv ==
    \/ \E r \in ConcRows : StoreInsert(r)
    \/ \E i \in 1..NConcRows : StoreDelete(i)
    \/ Tick

\* Callers of get_all_properties and invalidating POSTs served
\* concurrently, interleaved at every cache or store access, while rows
\* come and go and the entry ages.  The store stays up here; its failure
\* is followed in the sequential specification.
ConcNext ==
    \/ ConcEnv
    \/ \E p \in Procs :
          \/ GetAllCall(p)
          \/ GetAllQuery(p)
          \/ GetAllCallSet(p)
          \/ InvalidateCache(p, "POST")

ConcSpec == Init /\ [][ConcNext]_vars

\* ============================================================== claims
Entry == cache[cache_key]

\* get_all_properties of request p returns in this step.
GetAllReturns(p) == pc[p] \in {"idle", "gap_set"} /\ pc'[p] = "stats_get"

\* get_cache_stats of request p does its cache lookup in this step.
StatsLooksUp(p) == pc[p] \in {"idle", "stats_get"} /\ pc'[p] = "stats_count"

\* Request p ends in this step.
Ends(p) == pc[p] # "idle" /\ pc'[p] = "idle"

\* C1: an invalidation leaves the entry absent; a get_all_properties call
\* that follows it (no other get_all_properties in between) goes to the
\* store; what it reads is the table as it is at that read; and when it
\* returns, the entry is present again and holds the records it returns.
C1_FreshReadAfterInvalidate ==
    [][\A p \in Procs :
          /\ request' = Req("invalidate_cache", "POST")
               => (invalidated' /\ ~Entry'.present)
          /\ invalidated =>
            /\ (pc[p] = "idle" /\ op'[p] = "property_list")
                 => (~Entry.present /\ pc'[p] = "gap_query")
            /\ (pc[p] = "gap_query" /\ pc'[p] = "gap_set")
                 => (queries'[p] = 1 /\ properties_list'[p] = store)
            /\ GetAllReturns(p)
                 => /\ pc[p] = "gap_set" /\ queries[p] = 1
                    /\ ~Entry.present
                    /\ Entry'.present
                    /\ Entry'.value = properties_list'[p]
                    /\ properties_list'[p] = properties_list[p]]_vars

C1_Witness ==
    \E p \in Procs :
        /\ invalidated /\ pc[p] = "stats_get" /\ queries[p] = 1
        /\ Entry.present /\ Entry.value = properties_list[p]
        /\ properties_list[p] = store /\ Len(store) = 2

\* C2: once a get_all_properties call has returned, and as long as the entry
\* was neither deleted nor expired, every further call returns the very same
\* sequence and reads the table zero times, whatever the table holds by then.
C2_RepeatedReadsServedFromCache ==
    [][\A p \in Procs :
          (lastGet.some /\ GetAllReturns(p))
            => /\ pc[p] = "idle"
               /\ queries'[p] = 0
               /\ properties_list'[p] = lastGet.val
               /\ store' = store]_vars

C2_Witness ==
    \E p \in Procs :
        /\ pc[p] = "stats_get" /\ queries[p] = 0
        /\ lastGet.some /\ properties_list[p] = lastGet.val
        /\ properties_list[p] # store

\* C3: a get_all_properties call that finds the key absent reads the whole
\* table, writes exactly that sequence under 'all_properties' with a
\* lifetime of 3600 seconds, and returns that same sequence.
C3_MissPathCachesWhatItReturns ==
    [][\A p \in Procs :
          /\ (pc[p] = "idle" /\ op'[p] = "property_list" /\ ~Entry.present)
               => pc'[p] = "gap_query"
          /\ (pc[p] = "gap_query" /\ pc'[p] # pc[p] /\ storeUp)
               => (pc'[p] = "gap_set" /\ properties_list'[p] = store)
          /\ (pc[p] = "gap_set" /\ pc'[p] # pc[p])
               => /\ pc'[p] = "stats_get"
                  /\ cache' = [k \in {"all_properties"} |->
                                 [present |-> TRUE,
                                  value |-> properties_list[p],
                                  remaining |-> 3600]]
                  /\ properties_list'[p] = properties_list[p]]_vars

C3_Witness ==
    \E p \in Procs :
        /\ pc[p] = "stats_get" /\ queries[p] = 1
        /\ Entry = [present |-> TRUE, value |-> properties_list[p], remaining |-> 3600]
        /\ Len(properties_list[p]) = 2

\* C4: a POST to invalidate_cache is answered 200 with the confirmation and
\* leaves the entry absent, also when the entry was absent already (nothing
\* in the cache changes then); the second of two POSTs in a row gets the
\* same response as the first.
C4_InvalidateIdempotent ==
    [][request' = Req("invalidate_cache", "POST")
          => /\ resp' = InvalidatedResp
             /\ resp'.status = 200
             /\ ~Entry'.present
             /\ (~Entry.present => cache' = cache)
             /\ (streak >= 1 => (resp' = resp /\ cache' = cache))]_vars

C4_Witness ==
    /\ streak = 2
    /\ request = Req("invalidate_cache", "POST")
    /\ resp.status = 200 /\ resp.body.action = "cache_cleared"
    /\ ~Entry.present

\* C5: a request to invalidate_cache with any method but POST is answered
\* 405 with current_method naming that method, does not run
\* invalidate_properties_cache, and leaves the cache as it was.
C5_NonPostRejected ==
    [][\A m \in Methods \ {"POST"} :
          request' = Req("invalidate_cache", m)
            => /\ resp'.kind = "invalidate_cache"
               /\ resp'.status = 405
               /\ resp'.body.current_method = m
               /\ invalidated' = invalidated
               /\ cache' = cache]_vars

C5_Witness ==
    /\ request = Req("invalidate_cache", "DELETE")
    /\ resp.status = 405 /\ resp.body.current_method = "DELETE"
    /\ Entry.present /\ Len(Entry.value) = 2

\* C6: get_cache_stats' lookup sees the entry exactly as it is at that
\* moment; is_cached is true exactly when the key was present then, and
\* cached_count is the length of the sequence found, 0 when none was.
C6_StatsReflectLookup ==
    [][\A p \in Procs :
          /\ StatsLooksUp(p)
               => /\ cached_data'[p].some = Entry.present
                  /\ (Entry.present => cached_data'[p].val = Entry.value)
          /\ (Ends(p) /\ pc[p] = "stats_count" /\ resp'.status = 200)
               => /\ stats'.is_cached = cached_data[p].some
                  /\ stats'.cached_count =
                        (IF cached_data[p].some THEN Len(cached_data[p].val) ELSE 0)]_vars

C6_Witness ==
    /\ request.view = "cache_stats" /\ resp.status = 200
    /\ resp.body.cache_statistics = stats
    /\ stats.is_cached /\ stats.cached_count = 2

\* C7: in a list request whose get_all_properties took the miss path, with
\* no write to the table since its read, the get_cache_stats call that
\* follows reports a cached_count no greater than database_count.
C7_CachedCountWithinStoreCount ==
    [][\A p \in Procs :
          (Ends(p) /\ pc[p] = "stats_count" /\ op[p] = "property_list"
             /\ queries[p] = 1 /\ ~dirty[p] /\ resp'.status = 200)
            => stats'.cached_count <= stats'.database_count]_vars

C7_Witness ==
    \E p \in Procs :
        /\ pc[p] = "idle" /\ queries[p] = 1 /\ ~dirty[p]
        /\ resp.kind = "property_list" /\ resp.status = 200
        /\ stats.cached_count = 2 /\ stats.database_count = 2

\* C8: no step of get_cache_stats, in the stats view or in the list view,
\* changes the cache (presence, value, remaining lifetime) or the table.
C8_StatsWriteNothing ==
    [][\A p \in Procs :
          (StatsLooksUp(p) \/ (pc[p] = "stats_count" /\ pc'[p] # pc[p]))
            => (cache' = cache /\ store' = store)]_vars

C8_Witness ==
    /\ request.view = "cache_stats" /\ resp.status = 200
    /\ stats.is_cached
    /\ Entry.present /\ Entry.remaining < CACHE_TTL

\* C9: a list request answered 200 after an earlier one was, with the entry
\* neither deleted nor expired in between, returns the earlier one's
\* records, is_cached true and the cache as data_source, whatever the table
\* holds by then.
C9_SecondListFromCache ==
    [][\A p \in Procs :
          (Ends(p) /\ op[p] = "property_list" /\ resp'.status = 200
             /\ lastList.n >= 1)
            => /\ resp'.body.properties = lastList.val
               /\ resp'.body.cache_info.is_cached
               /\ resp'.body.performance.data_source = "Redis Cache"]_vars

C9_Witness ==
    /\ lastList.n = 2
    /\ resp.kind = "property_list" /\ resp.status = 200
    /\ resp.body.properties = lastList.val
    /\ resp.body.properties # store
    /\ resp.body.performance.data_source = "Redis Cache"

\* C10: a list or stats request ends only at a query of the store; while the
\* store is down that query ends the request at once in an unhandled error
\* (no second attempt, no write to the cache), so no such request ends
\* otherwise while the store is down, whether the entry is present or not.
C10_StoreDownFailsReads ==
    [][\A p \in Procs :
          /\ Ends(p) => pc[p] \in {"gap_query", "stats_count"}
          /\ (Ends(p) /\ ~storeUp)
               => (resp' = ErrorResp(op[p]) /\ resp'.status = 500)
          /\ (pc[p] \in {"gap_query", "stats_count"} /\ pc'[p] # pc[p] /\ ~storeUp)
               => (pc'[p] = "idle" /\ queries'[p] = queries[p] /\ cache' = cache)]_vars

C10_Witness ==
    \E p \in Procs :
        /\ ~storeUp /\ pc[p] = "idle" /\ queries[p] = 0
        /\ resp = ErrorResp("property_list")
        /\ Entry.present

\* C11: the entry lives 3600 seconds counted from the cache.set of the miss
\* path that wrote it: while it is present its remaining lifetime is 3600
\* less the time since that write; a hit and a lookup of get_cache_stats
\* leave the entry and its lifetime as they are; the passing of time takes
\* the entry away exactly when 3600 seconds have gone by since the write;
\* and the first get_all_properties after that takes the miss path.
C11_LifetimeFromWrite ==
    /\ [](Entry.present
            => (age < CACHE_TTL /\ Entry.remaining = CACHE_TTL - age))
    /\ [][\A p \in Procs :
            /\ (pc[p] = "gap_set" /\ pc'[p] = "stats_get")
                 => (Entry'.present /\ Entry'.remaining = CACHE_TTL /\ age' = 0)
            /\ ((pc[p] = "idle" /\ pc'[p] = "stats_get") \/ StatsLooksUp(p))
                 => (cache' = cache /\ age' = age)
            /\ (request' = NoRequest /\ Entry.present /\ cache' # cache)
                 => /\ Entry'.present = (age + TickLen < CACHE_TTL)
                    /\ ~Entry'.present => cause' = "expired"
            /\ (cause = "expired" /\ pc[p] = "idle" /\ op'[p] = "property_list")
                 => (~Entry.present /\ pc'[p] = "gap_query")]_vars

C11_Witness ==
    \E p \in Procs :
        /\ cause = "expired"
        /\ op[p] = "property_list" /\ pc[p] = "gap_query"
        /\ ~Entry.present /\ lastRead.some

\* C12: the entry is a machine of two states, absent and present. It starts
\* absent; it becomes present only by the cache.set of a miss path, which
\* stores the list that path read; it becomes absent only by a POST to the
\* invalidate view or by its lifetime running out; a hit, both steps of
\* get_cache_stats and an invalidate request that is not a POST leave its
\* state as it is.
C12_TwoStateMachine ==
    /\ ~Entry.present
    /\ [][/\ (~Entry.present /\ Entry'.present)
               => \E p \in Procs :
                     /\ pc[p] = "gap_set" /\ pc'[p] = "stats_get"
                     /\ Entry'.value = properties_list[p]
          /\ (Entry.present /\ ~Entry'.present)
               => \/ request' = Req("invalidate_cache", "POST")
                  \/ request' = NoRequest /\ age + TickLen >= CACHE_TTL
          /\ \A p \in Procs :
                ( \/ pc[p] = "idle" /\ pc'[p] = "stats_get"
                  \/ StatsLooksUp(p)
                  \/ pc[p] = "stats_count" /\ Ends(p)
                  \/ request' \in {Req("invalidate_cache", m) : m \in Methods \ {"POST"}} )
                => Entry'.present = Entry.present]_vars

C12_Witness ==
    /\ request = Req("invalidate_cache", "DELETE")
    /\ Entry.present /\ age = TickLen
    /\ lastList.n = 1

\* C16: the list view looks the key up for its statistics only after its own
\* get_all_properties has returned; so, with requests served one at a time
\* and the entry not expiring in between, a list request that found the
\* cache cold and read the table itself still answers is_cached true,
\* cache_hit true and the cache as the data source, with the list it read.
C16_ColdListReportsCached ==
    [][\A p \in Procs :
          /\ (StatsLooksUp(p) /\ op[p] = "property_list")
               => pc[p] = "stats_get"
          /\ (Ends(p) /\ op[p] = "property_list" /\ queries[p] = 1
                /\ resp'.status = 200 /\ lastGet.some)
               => /\ resp'.body.cache_info.is_cached
                  /\ resp'.body.performance.cache_hit
                  /\ resp'.body.performance.data_source = "Redis Cache"
                  /\ resp'.body.properties = properties_list[p]]_vars

C16_Witness ==
    \E p \in Procs :
        /\ pc[p] = "idle" /\ queries[p] = 1
        /\ resp.kind = "property_list" /\ resp.status = 200
        /\ resp.body.performance.cache_hit
        /\ resp.body.performance.data_source = "Redis Cache"
        /\ lastList.n = 1 /\ lastList.val = resp.body.properties

\* C17: when the read of the table fails in the miss path, the request ends
\* there in the unhandled error, nothing is written to the cache and the
\* entry stays absent; so the next get_all_properties finds the key absent
\* again and goes to the table again.
C17_FailedReadCachesNothing ==
    /\ [](cause = "failed" => ~Entry.present)
    /\ [][\A p \in Procs :
            /\ (pc[p] = "gap_query" /\ pc'[p] # "gap_query" /\ ~storeUp)
                 => /\ pc'[p] = "idle"
                    /\ resp' = ErrorResp(op[p]) /\ resp'.status = 500
                    /\ cache' = cache /\ ~Entry'.present
                    /\ cause' = "failed"
            /\ (cause = "failed" /\ pc[p] = "idle" /\ op'[p] = "property_list")
                 => pc'[p] = "gap_query"
            /\ (cause = "failed" /\ pc[p] = "gap_query" /\ pc'[p] = "gap_set")
                 => (queries'[p] = 1 /\ properties_list'[p] = store)]_vars

C17_Witness ==
    \E p \in Procs :
        /\ cause = "failed"
        /\ op[p] = "property_list" /\ pc[p] = "gap_set" /\ queries[p] = 1
        /\ ~Entry.present

\* C18: with an empty table a miss stores the empty list, and the entry then
\* counts as present: get_cache_stats finds it and reports is_cached true
\* with cached_count 0, and every further get_all_properties returns the
\* empty list from the cache without a read of the table.
C18_EmptyListIsCached ==
    [][\A p \in Procs :
          /\ (pc[p] = "gap_set" /\ pc'[p] = "stats_get" /\ properties_list[p] = <<>>)
               => (Entry'.present /\ Entry'.value = <<>>)
          /\ (Entry.present /\ Entry.value = <<>>
                /\ pc[p] = "idle" /\ op'[p] = "property_list")
               => /\ pc'[p] = "stats_get"
                  /\ properties_list'[p] = <<>>
                  /\ queries'[p] = 0
          /\ (Entry.present /\ Entry.value = <<>> /\ StatsLooksUp(p))
               => cached_data'[p] = Some(<<>>)
          /\ (Ends(p) /\ pc[p] = "stats_count" /\ cached_data[p] = Some(<<>>)
                /\ storeUp)
               => (stats'.is_cached /\ stats'.cached_count = 0)]_vars

C18_Witness ==
    \E p \in Procs :
        /\ pc[p] = "idle" /\ queries[p] = 0
        /\ resp.kind = "property_list" /\ resp.status = 200
        /\ resp.body.properties = <<>> /\ store # <<>>
        /\ stats.is_cached /\ stats.cached_count = 0
        /\ Entry.present /\ Entry.value = <<>>

\* All requests have returned.
Quiet == \A p \in Procs : pc[p] = "idle"

\* C13 (as stated): whenever the entry is present, its value is the table as
\* the most recent full read of any miss path found it, also with several
\* requests running concurrently and the table changing between their
\* reads. Taken at the moments when no request is in flight.
C13_ValueIsLatestRead ==
    (Quiet /\ Entry.present)
        => (lastRead.some /\ Entry.value = lastRead.val)

\* C13 (amended): whenever the entry is present, its value is the table as
\* the full read of the miss path that wrote the entry last found it: a
\* miss path reads the whole table as it is at its read, keeps that list
\* untouched until its cache.set, stores exactly that list, and nothing
\* else gives the entry a value.
C13_ValueIsLastWritersRead ==
    [][/\ \A p \in Procs :
             /\ (pc[p] = "gap_query" /\ pc'[p] = "gap_set")
                  => (properties_list'[p] = store /\ lastRead' = Some(store))
             /\ (pc[p] = "gap_set" /\ pc'[p] = "gap_set")
                  => properties_list'[p] = properties_list[p]
             /\ (pc[p] = "gap_set" /\ pc'[p] # "gap_set")
                  => (Entry'.present /\ Entry'.value = properties_list[p])
       /\ (Entry'.present /\ (~Entry.present \/ Entry'.value # Entry.value))
            => \E p \in Procs : pc[p] = "gap_set" /\ pc'[p] # "gap_set"]_vars

C13_Witness ==
    /\ Quiet /\ Entry.present /\ batch >= 2
    /\ lastRead.some /\ Entry.value # lastRead.val
    /\ resp = CallResult(Entry.value, "store")

\* C14: every get_all_properties call that found the key absent goes on to
\* read the table, whatever the other calls have done meanwhile, and then
\* to write what it read to the cache, over whatever is there; so N calls
\* that all found the key absent make N reads and N writes. After each
\* write the entry is present with the list its writer read, and with all
\* calls returned and no invalidation or expiry since, the entry holds the
\* value of the last write.
C14_EachMissReadsAndWrites ==
    /\ []((Quiet /\ lastGet.some)
            => (Entry.present /\ Entry.value = lastGet.val))
    /\ [][\A p \in Procs :
            /\ (pc[p] = "gap_query" /\ pc'[p] # "gap_query")
                 => /\ pc'[p] = "gap_set"
                    /\ queries'[p] = queries[p] + 1
                    /\ properties_list'[p] = store
            /\ (pc[p] = "gap_set" /\ pc'[p] # "gap_set")
                 => /\ pc'[p] = "idle" /\ queries[p] = 1
                    /\ Entry' = [present |-> TRUE,
                                  value |-> properties_list[p],
                                  remaining |-> CACHE_TTL]
                    /\ batch' = IF Entry.present
                                  THEN (IF batch < NProcs THEN batch + 1 ELSE batch)
                                  ELSE 1
                    /\ resp' = CallResult(properties_list[p], "store")
                    /\ lastGet' = Some(properties_list[p])]_vars

C14_Witness ==
    /\ Quiet /\ batch = NProcs
    /\ Entry.present /\ lastGet = Some(Entry.value)
    /\ resp = CallResult(Entry.value, "store")

\* C15 (as stated): once a POST to the invalidate view has completed, a
\* get_all_properties call that starts afterwards fetches from the table,
\* also while another call is in flight: no call is ever answered from the
\* cache with a list that was read from the table before an invalidation
\* that completed before the call started; least of all with a list that is
\* not what the table holds.
C15_NoStaleReadAfterInvalidate ==
    ~ ( /\ resp.kind = "get_all_properties"
        /\ resp.body.from = "cache"
        /\ entryStale
        /\ resp.body.properties # store )

====
